---- MODULE Spec2Model ----
(***************************************************************************)
(* Model of the civa-frontend bus list client.                             *)
(*                                                                         *)
(*   Pagination.tsx   the Pagination component: the page window            *)
(*                    (getVisiblePages), the range text and the rendered   *)
(*                    controls                                             *)
(*   fetchHttpClient  request(): timeout signal, error normalisation and   *)
(*                    content negotiation                                  *)
(*   useBuses/BusPage the fetch-and-display cycle and what the page shows  *)
(*                                                                         *)
(* Six specifications share the module:                                    *)
(*   SpecPagination   Pagination rendered with arbitrary props             *)
(*   SpecRequest      one call of request() against an arbitrary server    *)
(*   SpecGetAll       one call of busService.getAll() for any wire shape   *)
(*   Spec             BusPage driven through its rendered controls         *)
(*   SpecHook         useBuses driven by any caller, fetches overlapping   *)
(*   SpecFair         BusPage under a fair scheduler, timer and network    *)
(***************************************************************************)
EXTENDS Integers, Sequences, FiniteSets, TLC

VARIABLES
  pgProps,      \* SpecPagination: the props Pagination is rendered with
  pgOut,        \* SpecPagination: what the last render produced
  req,          \* SpecRequest: the state of the one call of request()
  listCall,     \* SpecGetAll: the one call of busService.getAll()
  currentPage,  \* BusPage: useState(0)
  buses,        \* useBuses: useState<Bus[]>([])
  loading,      \* useBuses: useState(true)
  error,        \* useBuses: useState<string | null>(null)
  pagination,   \* useBuses: useState<PaginationData | null>(null)
  mounted,      \* BusPage: whether the mount effect has run
  fetches,      \* the calls of fetchBuses, in the order they were initiated
  total,        \* the backend: how many buses it holds
  latest,       \* history: the call of fetchBuses initiated last, and its fate
  lastGood,     \* history: what the last call that succeeded returned
  triggers,     \* history: how many times the hook was asked to fetch
  calls         \* history: how many network calls were started

pgVars  == <<pgProps, pgOut>>
reqVars == <<req, listCall>>
obsVars == <<latest, lastGood, triggers, calls>>
appVars == <<currentPage, buses, loading, error, pagination, mounted, fetches, total,
             obsVars>>
vars    == <<pgProps, pgOut, req, listCall, currentPage, buses, loading, error, pagination,
             mounted, fetches, total, latest, lastGood, triggers, calls>>

----------------------------------------------------------------------------
(* Bounds of the model.                                                    *)

MaxTotalPages == 11
MaxPageOver   == 2
MaxPageSize   == 6
MaxElements   == 24
MaxTotal      == 38
MaxInFlight   == 2
MaxCount      == 2
MaxHookPage   == 2
MaxBusId      == 4
MaxListLen    == 2

(* Program constants.                                                      *)

WindowAll     == 7
WindowEdge    == 5
EdgeStart     == 2
EdgeEnd       == 3
EllipsisA     == -1
EllipsisB     == -2
DefaultSize   == 5
PageSizeFixed == 5
MockPageSize  == 5

----------------------------------------------------------------------------
(* Helpers for JavaScript values.                                          *)

\* An optional prop: <<>> is undefined, <<v>> is the value v.
Undefined == <<>>
Some(v)   == <<v>>
OrDefault(opt, d) == IF opt = Undefined THEN d ELSE opt[1]

Min(a, b) == IF a < b THEN a ELSE b

\* The sequence lo, lo+1, ..., hi (empty when hi < lo).
Range(lo, hi) == [i \in 1..(IF hi >= lo THEN hi - lo + 1 ELSE 0) |-> lo + i - 1]

----------------------------------------------------------------------------
(* Pagination.tsx                                                          *)

\* Array.from({ length: totalPages }, (_, i) => i)
AllPagesShifted(totalPages) == Range(1, totalPages)
AllPages(totalPages) == Range(0, totalPages - 1)

\* currentPage <= 2: 0..4, ellipsis, last
StartWindowShort(totalPages) ==
  Range(0, WindowEdge - 2) \o <<EllipsisA>> \o <<totalPages - 1>>
StartWindow(totalPages) ==
  Range(0, WindowEdge - 1) \o <<EllipsisA>> \o <<totalPages - 1>>

\* currentPage >= totalPages - 3: first, ellipsis, the last five
EndWindowShort(totalPages) ==
  <<0>> \o <<EllipsisA>> \o Range(totalPages - WindowEdge + 1, totalPages - 1)
EndWindow(totalPages) ==
  <<0>> \o <<EllipsisA>> \o Range(totalPages - WindowEdge, totalPages - 1)

\* otherwise: first, ellipsis, currentPage-1..currentPage+1, ellipsis, last
MiddleWindowWide(cp, totalPages) ==
  <<0>> \o <<EllipsisA>> \o Range(cp - 1, cp + 2) \o <<EllipsisB>> \o <<totalPages - 1>>
MiddleWindow(cp, totalPages) ==
  <<0>> \o <<EllipsisA>> \o Range(cp - 1, cp + 1) \o <<EllipsisB>> \o <<totalPages - 1>>

getVisiblePagesLateEnd(cp, totalPages) ==
  IF totalPages <= WindowAll THEN AllPages(totalPages)
  ELSE IF cp <= EdgeStart THEN StartWindow(totalPages)
  ELSE IF cp >= totalPages - EdgeEnd + 1 THEN EndWindow(totalPages)
  ELSE MiddleWindow(cp, totalPages)
getVisiblePagesWideStart(cp, totalPages) ==
  IF totalPages <= WindowAll THEN AllPages(totalPages)
  ELSE IF cp <= EdgeStart + 3 THEN StartWindow(totalPages)
  ELSE IF cp >= totalPages - EdgeEnd THEN EndWindow(totalPages)
  ELSE MiddleWindow(cp, totalPages)
getVisiblePages(cp, totalPages) ==
  IF totalPages <= WindowAll THEN AllPages(totalPages)
  ELSE IF cp <= EdgeStart THEN StartWindow(totalPages)
  ELSE IF cp >= totalPages - EdgeEnd THEN EndWindow(totalPages)
  ELSE MiddleWindow(cp, totalPages)

\* const start = currentPage * pageSize + 1
RangeStartZeroBased(cp, pageSize) == cp * pageSize
RangeStart(cp, pageSize) == cp * pageSize + 1

\* const end = Math.min((currentPage + 1) * pageSize, totalElements)
RangeEndUnclamped(cp, pageSize, totalElements) == (cp + 1) * pageSize
RangeEnd(cp, pageSize, totalElements) == Min((cp + 1) * pageSize, totalElements)

IsEllipsis(page) == page = EllipsisA \/ page = EllipsisB

\* key={`ellipsis-${index}`}, index being the 0-based position in the window
EllipsisKeyNoIndex(index) == "ellipsis"
EllipsisKey(index) == "ellipsis-" \o ToString(index)

\* key={page}: React turns the number into its decimal string
PageKey(page) == ToString(page)

\* One entry of visiblePages.map(...): a static <span> for an ellipsis, a
\* <button> calling onPageChange(page) for a page index.
WindowItemIgnoresLoading(page, index, cp, isLoading) ==
  IF IsEllipsis(page)
  THEN [tag |-> "span", key |-> EllipsisKey(index), onClick |-> Undefined,
        disabled |-> FALSE, label |-> "...", active |-> FALSE]
  ELSE [tag |-> "button", key |-> PageKey(page), onClick |-> Some(page),
        disabled |-> FALSE, label |-> ToString(page + 1), active |-> page = cp]
WindowItem(page, index, cp, isLoading) ==
  IF IsEllipsis(page)
  THEN [tag |-> "span", key |-> EllipsisKey(index), onClick |-> Undefined,
        disabled |-> FALSE, label |-> "...", active |-> FALSE]
  ELSE [tag |-> "button", key |-> PageKey(page), onClick |-> Some(page),
        disabled |-> isLoading, label |-> ToString(page + 1), active |-> page = cp]

NullView == [rendered |-> FALSE]

\* The element tree Pagination returns for its props (null when totalPages <= 1).
\* prev and next stand for both pairs of previous/next buttons (the mobile
\* pair and the desktop pair have the same handlers and disabled flags).
Pagination(props) ==
  LET cp        == props.currentPage
      tp        == props.totalPages
      pageSize  == OrDefault(props.pageSize, DefaultSize)
      isLoading == OrDefault(props.loading, FALSE)
      isFirst   == cp = 0
      isLast    == cp = tp - 1
      visible   == getVisiblePages(cp, tp)
  IN IF tp <= 1 THEN NullView
     ELSE [rendered      |-> TRUE,
           start         |-> RangeStart(cp, pageSize),
           end           |-> RangeEnd(cp, pageSize, props.totalElements),
           totalElements |-> props.totalElements,
           prev          |-> [onClick |-> cp - 1, disabled |-> isFirst \/ isLoading],
           next          |-> [onClick |-> cp + 1, disabled |-> isLast \/ isLoading],
           items         |-> [i \in 1..Len(visible) |->
                                WindowItem(visible[i], i - 1, cp, isLoading)]]

----------------------------------------------------------------------------
(* SpecPagination: Pagination rendered with props drawn from bounded sets, *)
(* and its enabled controls clicked.                                       *)

PageRange == (0 - MaxPageOver)..(MaxTotalPages + MaxPageOver)

PropsSet ==
  [currentPage   : PageRange,
   totalPages    : 0..MaxTotalPages,
   totalElements : 0..MaxElements,
   pageSize      : {Undefined} \cup {Some(n) : n \in 1..MaxPageSize},
   loading       : {Undefined, Some(TRUE), Some(FALSE)}]

NoProps  == [currentPage |-> 0, totalPages |-> 0, totalElements |-> 0,
             pageSize |-> Undefined, loading |-> Undefined]
NotRendered == [phase |-> "props"]

\* A render: the component function runs on the current props.
PgRender ==
  /\ pgOut.phase = "props"
  /\ pgOut' = [phase        |-> "rendered",
               visiblePages |-> getVisiblePages(pgProps.currentPage, pgProps.totalPages),
               view         |-> Pagination(pgProps)]
  /\ UNCHANGED <<pgProps, reqVars, appVars>>

\* The pages the enabled controls of a rendered view pass to onPageChange.
EnabledClicks(view) ==
  IF ~view.rendered THEN {}
  ELSE (IF view.prev.disabled THEN {} ELSE {view.prev.onClick})
       \cup (IF view.next.disabled THEN {} ELSE {view.next.onClick})
       \cup {view.items[i].onClick[1] :
               i \in {j \in DOMAIN view.items :
                        /\ view.items[j].onClick # Undefined
                        /\ ~view.items[j].disabled}}

\* A click on an enabled control: onPageChange(page); the parent passes the
\* page back as currentPage and the component renders again.
PgClick ==
  /\ pgOut.phase = "rendered"
  /\ \E page \in EnabledClicks(pgOut.view) :
       /\ page \in PageRange
       /\ pgProps' = [pgProps EXCEPT !.currentPage = page]
  /\ pgOut' = NotRendered
  /\ UNCHANGED <<reqVars, appVars>>

----------------------------------------------------------------------------
(* JavaScript values that cross request(): the result of JSON.parse, the   *)
(* raw body text, undefined.                                               *)

JUndefined    == [t |-> "undefined"]
JNull         == [t |-> "null"]
JString(s)    == [t |-> "string", v |-> s]
JObject(flds) == [t |-> "object", v |-> flds]

Null == <<>>

----------------------------------------------------------------------------
(* The backend behind GET /api/v1/buses?paginated=true&page=p&size=s: a    *)
(* Spring Page over the buses it holds.                                    *)

CeilDiv(a, b) == (a + b - 1) \div b

\* The bus resource with identifier id (the display fields of a resource
\* are carried along unchanged and are left out).
BusResource(id) == [id |-> id, busNumber |-> 100 + id, isActive |-> id % 3 # 0]

PageContent(p, s, n) ==
  [i \in 1..(IF p * s < n THEN Min(s, n - p * s) ELSE 0) |-> BusResource(p * s + i)]

\* The page envelope for page p of size s over n buses.
PageEnvelope(p, s, n) ==
  [content       |-> PageContent(p, s, n),
   totalElements |-> n,
   totalPages    |-> CeilDiv(n, s),
   number        |-> p,
   size          |-> s,
   first         |-> p = 0,
   last          |-> ~(p + 1 < CeilDiv(n, s))]

\* The envelope as the text of a response body (JSON.stringify of it).
EnvelopeText(p, s, n) ==
  "{\"number\":" \o ToString(p) \o ",\"size\":" \o ToString(s)
    \o ",\"totalElements\":" \o ToString(n) \o ",...}"

----------------------------------------------------------------------------
(* fetchHttpClient: request()                                              *)

TIMEOUT         == 10000
OkLow           == 200
OkHigh          == 299
StatusNoContent == 204

\* Body texts other than page envelopes, and what JSON.parse makes of them.
TextEmpty    == ""
TextNotFound == "{\"error\":\"not found\"}"
TextNull     == "null"
TextPlain    == "Service Unavailable"
TextHtml     == "<html>Bad Gateway</html>"
PlainTexts   == {TextEmpty, TextNotFound, TextNull, TextPlain, TextHtml}

EnvelopeArgs == (0..CeilDiv(MaxTotal, PageSizeFixed)) \X {PageSizeFixed} \X (0..MaxTotal)

\* JSON.parse(text): [ok |-> TRUE, value |-> v], or [ok |-> FALSE] when it
\* throws a SyntaxError.
EnvelopeTexts == {<<EnvelopeText(a[1], a[2], a[3]), a>> : a \in EnvelopeArgs}
JSONParse(text) ==
  IF text = TextNotFound
    THEN [ok |-> TRUE, value |-> JObject([error |-> JString("not found")])]
  ELSE IF text = TextNull
    THEN [ok |-> TRUE, value |-> JNull]
  ELSE IF \E e \in EnvelopeTexts : e[1] = text
    THEN LET a == (CHOOSE e \in EnvelopeTexts : e[1] = text)[2]
         IN [ok |-> TRUE, value |-> JObject(PageEnvelope(a[1], a[2], a[3]))]
  ELSE [ok |-> FALSE]

\* contentType?.includes("application/json")
CtJson        == "application/json"
CtJsonCharset == "application/json;charset=UTF-8"
CtText        == "text/plain"
CtHtml        == "text/html"
ContentTypes  == {Null, <<CtJson>>, <<CtJsonCharset>>, <<CtText>>, <<CtHtml>>}
IncludesJson(contentType) ==
  contentType # Null /\ contentType[1] \in {CtJson, CtJsonCharset}

\* res.ok
ResOk(status) == OkLow <= status /\ status <= OkHigh

\* What request() has produced.
Pending       == [kind |-> "pending"]
Returned(v)   == [kind |-> "value", value |-> v]
\* A thrown Error object: its name and message, and the status and data
\* request() assigns to it (absent on errors it did not create).
Thrown(name, message, status, data) ==
  [kind |-> "error", name |-> name, message |-> message, status |-> status, data |-> data]
AbortError  == Thrown("AbortError", "signal is aborted without reason", Undefined, Undefined)
NetworkError == Thrown("TypeError", "Failed to fetch", Undefined, Undefined)
SyntaxError == Thrown("SyntaxError", "Unexpected token", Undefined, Undefined)

\* let errorData = null; try { errorData = text ? JSON.parse(text) : null }
\* catch { errorData = text }
ErrorDataDropsRaw(text) ==
  IF text = "" THEN JNull
  ELSE IF JSONParse(text).ok THEN JSONParse(text).value
  ELSE JNull
ErrorData(text) ==
  IF text = "" THEN JNull
  ELSE IF JSONParse(text).ok THEN JSONParse(text).value
  ELSE JString(text)

\* Object.assign(new Error(text || res.statusText), { status, data })
HttpErrorNoStatus(res, text) ==
  Thrown("Error", IF text # "" THEN text ELSE res.statusText,
         Undefined, Some(ErrorData(text)))
HttpError(res, text) ==
  Thrown("Error", IF text # "" THEN text ELSE res.statusText,
         Some(res.status), Some(ErrorData(text)))

\* The state of one call of request().
\*   pc      "idle"     not called
\*           "fetch"    awaiting fetch(...)
\*           "errText"  awaiting res.text() in the !res.ok branch
\*           "okJson"   returned res.json() (not awaited): the body is being read
\*           "okText"   returned res.text() (not awaited): the body is being read
\*           "done"     the promise request() returned is settled
\*   timer   "none" | "armed" | "cleared" | "fired"
\*   aborted whether ctrl.abort() has run
\*   elapsed whether TIMEOUT ms have passed since the call
\*   res     the response fetch() resolved with, if any
\*   read    whether the body text has been read to its end
\*   outcome what the promise request() returned has settled to
ReqIdle ==
  [pc |-> "idle", timer |-> "none", aborted |-> FALSE, elapsed |-> FALSE,
   res |-> Null, read |-> FALSE, outcome |-> Pending]

\* const [signal, timer] = timeoutSignal(TIMEOUT); ... await fetch(...)
ReqStart ==
  [pc |-> "fetch", timer |-> "armed", aborted |-> FALSE, elapsed |-> FALSE,
   res |-> Null, read |-> FALSE, outcome |-> Pending]

\* finally { clearTimeout(timer) }
ClearTimeoutNever(timer) == timer
ClearTimeout(timer) == IF timer = "armed" THEN "cleared" ELSE timer

\* The call leaves its try block with `outcome`: finally runs, the promise settles.
Finish(r, outcome) ==
  [r EXCEPT !.pc = "done", !.outcome = outcome, !.timer = ClearTimeout(r.timer)]

\* if (res.status === 204) return undefined as T
IsNoContentNever(res) == FALSE
IsNoContent(res) == res.status = StatusNoContent

\* const contentType = res.headers.get('content-type') ?? ''
\* if (contentType.includes('application/json')) return res.json() ...
\* return res.text() ...
ReadsAsJsonAlways(res) == TRUE
ReadsAsJson(res) == IncludesJson(res.contentType)

\* fetch() resolves with the response head; the code runs on to its next await.
\* `return res.json()` and `return res.text()` are not awaited: finally runs at
\* once and the promise of request() follows the body promise.
OnResponse(r, res) ==
  IF ~ResOk(res.status)
    THEN [r EXCEPT !.pc = "errText", !.res = Some(res)]
  ELSE IF IsNoContent(res)
    THEN Finish([r EXCEPT !.res = Some(res)], Returned(JUndefined))
  ELSE IF ReadsAsJson(res)
    THEN [r EXCEPT !.pc = "okJson", !.res = Some(res), !.timer = ClearTimeout(r.timer)]
  ELSE [r EXCEPT !.pc = "okText", !.res = Some(res), !.timer = ClearTimeout(r.timer)]

\* fetch() rejects: the network failed.
OnNetworkError(r) == Finish(r, NetworkError)

\* The body has been read to its end.
OnBody(r) ==
  LET res == r.res[1]
      got == [r EXCEPT !.read = TRUE]
  IN IF r.pc = "errText" THEN Finish(got, HttpError(res, res.text))
     ELSE IF r.pc = "okJson"
       THEN Finish(got, IF JSONParse(res.text).ok
                          THEN Returned(JSONParse(res.text).value)
                          ELSE SyntaxError)
     ELSE Finish(got, Returned(JString(res.text)))

\* Reading the body fails: the connection broke.
OnBodyError(r) == Finish(r, NetworkError)

\* setTimeout(() => ctrl.abort(), ms) fires: the signal aborts, and whatever
\* the call is waiting for on that signal rejects with an AbortError.
OnTimer(r) ==
  LET a == [r EXCEPT !.timer = "fired", !.aborted = TRUE, !.elapsed = TRUE]
  IN IF r.pc = "done" THEN a ELSE Finish(a, AbortError)

\* TIMEOUT ms pass with the timer cleared: nothing runs.
OnDeadline(r) == [r EXCEPT !.elapsed = TRUE]

----------------------------------------------------------------------------
(* SpecRequest: one call of request() against a server that may answer     *)
(* anything, fail, or be slower than the timeout.                          *)

StatusText(status) ==
  CASE status = 200 -> "OK"
    [] status = 204 -> "No Content"
    [] status = 404 -> "Not Found"
    [] OTHER        -> "Internal Server Error"

\* What a server can answer: the response head and the text of its body.
\* statusText is the reason phrase, or empty (HTTP/2 carries none).
Responses ==
  UNION {[status      : {st},
          statusText  : {StatusText(st), ""},
          contentType : ContentTypes,
          text        : PlainTexts \cup {EnvelopeText(1, PageSizeFixed, 23)}]
          : st \in {200, 204, 404, 500}}

ReqCall ==
  /\ req.pc = "idle"
  /\ req' = ReqStart
  /\ UNCHANGED <<pgVars, appVars, listCall>>

ReqResponse ==
  /\ req.pc = "fetch"
  /\ \E res \in Responses : req' = OnResponse(req, res)
  /\ UNCHANGED <<pgVars, appVars, listCall>>

ReqNetworkError ==
  /\ req.pc = "fetch"
  /\ req' = OnNetworkError(req)
  /\ UNCHANGED <<pgVars, appVars, listCall>>

ReqBody ==
  /\ req.pc \in {"errText", "okJson", "okText"}
  /\ req' = OnBody(req)
  /\ UNCHANGED <<pgVars, appVars, listCall>>

ReqBodyError ==
  /\ req.pc \in {"errText", "okJson", "okText"}
  /\ req' = OnBodyError(req)
  /\ UNCHANGED <<pgVars, appVars, listCall>>

ReqTimer ==
  /\ req.timer = "armed"
  /\ req' = OnTimer(req)
  /\ UNCHANGED <<pgVars, appVars, listCall>>

ReqDeadline ==
  /\ req.timer = "cleared"
  /\ ~req.elapsed
  /\ req' = OnDeadline(req)
  /\ UNCHANGED <<pgVars, appVars, listCall>>

----------------------------------------------------------------------------
(* bus-assembler.ts, bus-api.ts, bus-service.ts                            *)

\* BusAssembler.toEntityFromResource
toEntityFromResource(resource) ==
  [id |-> resource.id, busNumber |-> resource.busNumber, isActive |-> resource.isActive]

\* BusAssembler.toPaginatedResult: the fields of the envelope under the
\* names the hook uses.
toPaginatedResultSwapsFlags(response) ==
  [buses         |-> [i \in DOMAIN response.content |->
                        toEntityFromResource(response.content[i])],
   totalElements |-> response.totalElements,
   totalPages    |-> response.totalPages,
   currentPage   |-> response.number,
   pageSize      |-> response.size,
   isFirst       |-> response.last,
   isLast        |-> response.first]
toPaginatedResult(response) ==
  [buses         |-> [i \in DOMAIN response.content |->
                        toEntityFromResource(response.content[i])],
   totalElements |-> response.totalElements,
   totalPages    |-> response.totalPages,
   currentPage   |-> response.number,
   pageSize      |-> response.size,
   isFirst       |-> response.first,
   isLast        |-> response.last]

\* response.content.map(...) needs an object with a content array; on
\* undefined or a string it throws a TypeError.
HasContent(value) == value.t = "object" /\ "content" \in DOMAIN value.v
MapOfUndefined ==
  Thrown("TypeError", "Cannot read properties of undefined (reading 'map')",
         Undefined, Undefined)

\* busService.getPaginated over busApi.getPaginatedBuses over httpClient.get:
\* what the awaited call gives fetchBuses for what request() produced. Both
\* layers rethrow what they catch.
getPaginated(outcome) ==
  IF outcome.kind = "value"
    THEN IF HasContent(outcome.value)
           THEN Returned(toPaginatedResult(outcome.value.v))
           ELSE MapOfUndefined
    ELSE outcome

\* A JavaScript array.
JArray(seq) == [t |-> "array", v |-> seq]

\* Array.isArray(x)
IsArrayNever(x) == FALSE
IsArray(x) == x.t = "array"

\* x used as a condition: null, undefined and "" are falsy; arrays and
\* objects, the empty ones too, are truthy.
ToBoolean(x) == ~(x.t \in {"null", "undefined"}) /\ ~(x.t = "string" /\ x.v = "")

\* response.buses: undefined on anything that has no such property.
BusesField(response) ==
  IF response.t = "object" /\ "buses" \in DOMAIN response.v
    THEN response.v.buses
    ELSE JUndefined

\* busApi.getAllBuses over httpClient.get: the array itself, the buses field
\* when it is truthy, [] otherwise; what is caught is logged and thrown again.
getAllBuses(outcome) ==
  IF outcome.kind = "value"
    THEN IF IsArray(outcome.value)
           THEN Returned(outcome.value)
         ELSE IF ToBoolean(outcome.value) /\ ToBoolean(BusesField(outcome.value))
           THEN Returned(BusesField(outcome.value))
         ELSE Returned(JArray(<<>>))
    ELSE outcome

\* busService.getAll over busApi.getAllBuses: [] for anything that is not an
\* array, the mapped entities for an array; what is caught is thrown again.
getAll(outcome) ==
  IF outcome.kind = "value"
    THEN IF ~ToBoolean(outcome.value) THEN Returned(JArray(<<>>))
         ELSE IF ~IsArray(outcome.value) THEN Returned(JArray(<<>>))
         ELSE Returned(JArray([i \in DOMAIN outcome.value.v |->
                                 toEntityFromResource(outcome.value.v[i])]))
    ELSE outcome

----------------------------------------------------------------------------
(* SpecGetAll: one call of busService.getAll() for whatever request()      *)
(* produced for GET /api/v1/buses.                                         *)

ResourceLists ==
  UNION {[1..n -> {BusResource(id) : id \in 1..MaxBusId}] : n \in 0..MaxListLen}

\* What request() may produce, by kind: the two wire shapes, other objects,
\* null and undefined, bodies kept as text, and the failures of request().
GetAllOutcomes ==
  <<{Returned(JArray(l)) : l \in ResourceLists},
    {Returned(JObject([buses |-> JArray(l), total |-> Len(l)])) : l \in ResourceLists},
    {Returned(JObject([buses |-> JNull, total |-> 0])),
     Returned(JObject([buses |-> JString("none"), total |-> 0])),
     Returned(JObject([total |-> 0])),
     Returned(JObject([error |-> JString("not found")]))},
    {Returned(JNull), Returned(JUndefined)},
    {Returned(JString(TextEmpty)), Returned(JString(TextHtml))},
    {NetworkError, AbortError, SyntaxError,
     HttpError([status |-> 404, statusText |-> "Not Found"], TextNotFound),
     HttpError([status |-> 500, statusText |-> "Internal Server Error"], TextEmpty)}>>

NoListCall ==
  [phase |-> "idle", outcome |-> Pending, api |-> Pending, result |-> Pending]

\* httpClient.get has settled inside getAllBuses.
ListApi ==
  /\ listCall.phase = "request"
  /\ listCall' = [listCall EXCEPT !.phase = "api", !.api = getAllBuses(listCall.outcome)]
  /\ UNCHANGED <<pgVars, req, appVars>>

\* busApi.getAllBuses has settled inside getAll.
ListService ==
  /\ listCall.phase = "api"
  /\ listCall' = [listCall EXCEPT !.phase = "done", !.result = getAll(listCall.api)]
  /\ UNCHANGED <<pgVars, req, appVars>>

----------------------------------------------------------------------------
(* useBuses.ts and BusPage.tsx                                             *)

\* err instanceof Error: everything thrown on this path is an Error (a
\* DOMException is one too).
InstanceOfError(err) == err.name \in {"Error", "TypeError", "SyntaxError", "AbortError"}

\* const errorMessage = err instanceof Error ? err.message : 'Error loading buses'
ErrorMessageFixed(err) == "Error loading buses"
ErrorMessage(err) == IF InstanceOfError(err) THEN err.message ELSE "Error loading buses"

\* if (error): null and the empty string are falsy.
Truthy(err) == err # Null /\ err[1] # ""

\* const mockPagination = { currentPage, totalPages: Math.ceil(buses.length / 5), ... }
mockPagination ==
  [currentPage   |-> currentPage,
   totalPages    |-> CeilDiv(Len(buses), MockPageSize),
   totalElements |-> Len(buses),
   pageSize      |-> MockPageSize]

\* const paginationData = pagination || mockPagination
paginationData == IF pagination # Null THEN pagination[1] ELSE mockPagination

\* {paginationData.totalPages > 1 && (<Pagination ... />)}
MountsPaginationAlways(pd) == TRUE
MountsPagination(pd) == pd.totalPages > 1

PaginationProps(pd) ==
  [currentPage   |-> pd.currentPage,
   totalPages    |-> pd.totalPages,
   totalElements |-> pd.totalElements,
   pageSize      |-> Some(pd.pageSize),
   loading       |-> Some(loading)]

\* buses.filter((bus) => bus.isActive).length and its complement
CountActive(seq)   == Cardinality({i \in DOMAIN seq : seq[i].isActive})
CountInactiveAll(seq) == Len(seq)
CountInactive(seq) == Cardinality({i \in DOMAIN seq : ~seq[i].isActive})

\* What BusPage renders in the current state.
BusPageView ==
  IF Truthy(error)
    THEN [panel |-> "error", message |-> error[1]]
    ELSE [panel      |-> "page",
          total      |-> paginationData.totalElements,
          active     |-> CountActive(buses),
          inactive   |-> CountInactive(buses),
          refreshDisabled |-> loading,
          table      |-> IF loading THEN "spinner"
                         ELSE IF Len(buses) = 0 THEN "empty" ELSE "rows",
          mountsPagination |-> MountsPagination(paginationData),
          pagination |-> IF MountsPagination(paginationData)
                           THEN Pagination(PaginationProps(paginationData))
                           ELSE NullView]

\* A count that stops at MaxCount.
Inc(n) == IF n < MaxCount THEN n + 1 ELSE n

\* fetchBuses(page) up to its await: setLoading(true), setError(null), and
\* the call through busService down to request(), which calls fetch() once.
StartFetchKeepsLoading(page) ==
  /\ Len(fetches) < MaxInFlight
  /\ UNCHANGED loading
  /\ error' = Null
  /\ fetches' = Append(fetches, [page |-> page, size |-> PageSizeFixed, req |-> ReqStart])
  /\ calls' = Inc(calls)
StartFetchKeepsError(page) ==
  /\ Len(fetches) < MaxInFlight
  /\ loading' = TRUE
  /\ UNCHANGED error
  /\ fetches' = Append(fetches, [page |-> page, size |-> PageSizeFixed, req |-> ReqStart])
  /\ calls' = Inc(calls)
StartFetch(page) ==
  /\ Len(fetches) < MaxInFlight
  /\ loading' = TRUE
  /\ error' = Null
  /\ fetches' = Append(fetches, [page |-> page, size |-> PageSizeFixed, req |-> ReqStart])
  /\ calls' = Inc(calls)

RemoveAt(seq, i) == [j \in 1..(Len(seq) - 1) |-> IF j < i THEN seq[j] ELSE seq[j + 1]]

\* The pagination state fetchBuses builds from a result.
PaginationOf(result) ==
  [currentPage   |-> result.currentPage,
   totalPages    |-> result.totalPages,
   totalElements |-> result.totalElements,
   pageSize      |-> result.pageSize,
   isFirst       |-> result.isFirst,
   isLast        |-> result.isLast]

\* fetchBuses after its await returned `result`: setBuses, setPagination,
\* then finally { setLoading(false) }.
SettleSuccess(i, result) ==
  /\ fetches' = RemoveAt(fetches, i)
  /\ loading' = FALSE
  /\ buses' = result.buses
  /\ pagination' = Some(PaginationOf(result))
  /\ UNCHANGED <<error, calls>>

\* fetchBuses after its await threw `err`: the catch branch sets the error,
\* then finally { setLoading(false) }.
SettleFailureClearsList(i, err) ==
  /\ fetches' = RemoveAt(fetches, i)
  /\ loading' = FALSE
  /\ error' = Some(ErrorMessage(err))
  /\ buses' = <<>>
  /\ pagination' = Null
  /\ UNCHANGED calls
SettleFailureRetries(i, err) ==
  /\ fetches' = [fetches EXCEPT ![i].req = ReqStart]
  /\ calls' = Inc(calls)
  /\ UNCHANGED <<loading, error, buses, pagination>>
SettleFailureKeepsLoading(i, err) ==
  /\ fetches' = RemoveAt(fetches, i)
  /\ UNCHANGED loading
  /\ error' = Some(ErrorMessage(err))
  /\ UNCHANGED <<buses, pagination, calls>>
SettleFailure(i, err) ==
  /\ fetches' = RemoveAt(fetches, i)
  /\ loading' = FALSE
  /\ error' = Some(ErrorMessage(err))
  /\ UNCHANGED <<buses, pagination, calls>>

\* fetchBuses after its await, for what the awaited call gave.
Settle(i, got) ==
  IF got.kind = "value" THEN SettleSuccess(i, got.value) ELSE SettleFailure(i, got)

\* History: a call of fetchBuses for `page` is initiated by `trigger`; `after`
\* remembers the call initiated before it.
NoFetch == [trigger |-> "none", page |-> 0, state |-> "none", got |-> Null,
            after |-> [page |-> 0, state |-> "none"]]
Initiated(trigger, page) ==
  [trigger |-> trigger, page |-> page, state |-> "inflight", got |-> Null,
   after |-> [page |-> latest.page, state |-> latest.state]]

\* History: call i ends with `got`. The call initiated last is the last of
\* `fetches` for as long as it is in flight.
Observe(i, got) ==
  /\ latest' = IF i = Len(fetches) /\ latest.state = "inflight"
                 THEN [latest EXCEPT
                         !.state = IF got.kind = "value" THEN "ok" ELSE "failed",
                         !.got = Some(got)]
                 ELSE latest
  /\ lastGood' = IF got.kind = "value" THEN Some(got.value) ELSE lastGood

\* The request of fetch i takes a step to r; when that settles it, the
\* continuations up to fetchBuses run in the same turn of the event loop.
Advance(i, r) ==
  /\ IF r.pc = "done"
       THEN \E got \in {getPaginated(r.outcome)} :
              /\ Settle(i, got)
              /\ Observe(i, got)
       ELSE /\ fetches' = [fetches EXCEPT ![i].req = r]
            /\ UNCHANGED <<buses, pagination, loading, error, latest, lastGood, calls>>
  /\ UNCHANGED <<currentPage, mounted, total, triggers, pgVars, reqVars>>

----------------------------------------------------------------------------
(* Spec: BusPage in the browser. The user acts through the controls the    *)
(* page renders; the backend answers, fails or stalls.                     *)

TotalChoices == {0, 3, 12, MaxTotal}

\* What the backend may answer to the paginated GET for page p of size s
\* while holding n buses: the page envelope, an error status with a JSON,
\* plain or empty body, or a page of HTML from something in between.
AppResponses(p, s, n) ==
  {[status |-> 200, statusText |-> "OK", contentType |-> <<CtJson>>,
    text |-> EnvelopeText(p, s, n)],
   [status |-> 404, statusText |-> "Not Found", contentType |-> <<CtJson>>,
    text |-> TextNotFound],
   [status |-> 500, statusText |-> "Internal Server Error", contentType |-> <<CtText>>,
    text |-> TextPlain],
   [status |-> 500, statusText |-> "", contentType |-> Null, text |-> TextEmpty],
   [status |-> 503, statusText |-> "Service Unavailable", contentType |-> Null,
    text |-> TextEmpty],
   [status |-> 200, statusText |-> "OK", contentType |-> <<CtHtml>>, text |-> TextHtml]}

\* useEffect(() => { fetchBuses(page) }, [page]) after the first render.
Mount ==
  /\ ~mounted
  /\ mounted' = TRUE
  /\ StartFetch(currentPage)
  /\ latest' = Initiated("mount", currentPage)
  /\ triggers' = Inc(triggers)
  /\ UNCHANGED <<currentPage, buses, pagination, total, lastGood, pgVars, reqVars>>

\* The Refresh button of BusPageHeader: onRefresh = refetch, disabled while loading.
ClickRefreshWhileLoading ==
  /\ mounted
  /\ BusPageView.panel = "page"
  /\ StartFetch(currentPage)
  /\ latest' = Initiated("refresh", currentPage)
  /\ triggers' = Inc(triggers)
  /\ UNCHANGED <<currentPage, buses, pagination, mounted, total, lastGood,
                 pgVars, reqVars>>
ClickRefresh ==
  /\ mounted
  /\ BusPageView.panel = "page"
  /\ ~BusPageView.refreshDisabled
  /\ StartFetch(currentPage)
  /\ latest' = Initiated("refresh", currentPage)
  /\ triggers' = Inc(triggers)
  /\ UNCHANGED <<currentPage, buses, pagination, mounted, total, lastGood,
                 pgVars, reqVars>>

\* The retry button of ErrorPanel: onRetry = refetch.
ClickRetry ==
  /\ mounted
  /\ BusPageView.panel = "error"
  /\ StartFetch(currentPage)
  /\ latest' = Initiated("retry", currentPage)
  /\ triggers' = Inc(triggers)
  /\ UNCHANGED <<currentPage, buses, pagination, mounted, total, lastGood,
                 pgVars, reqVars>>

\* An enabled control of Pagination: handlePageChange(page) = setCurrentPage(page).
\* A new value renders again and the effect fetches it; the same value does nothing.
ClickPageFetchesOldPage ==
  /\ mounted
  /\ BusPageView.panel = "page"
  /\ \E page \in EnabledClicks(BusPageView.pagination) :
       IF page = currentPage
         THEN UNCHANGED <<currentPage, loading, error, fetches, latest, triggers, calls>>
         ELSE /\ currentPage' = page
              /\ StartFetch(currentPage)
              /\ latest' = Initiated("page", page)
              /\ triggers' = Inc(triggers)
  /\ UNCHANGED <<buses, pagination, mounted, total, lastGood, pgVars, reqVars>>
ClickPage ==
  /\ mounted
  /\ BusPageView.panel = "page"
  /\ \E page \in EnabledClicks(BusPageView.pagination) :
       IF page = currentPage
         THEN UNCHANGED <<currentPage, loading, error, fetches, latest, triggers, calls>>
         ELSE /\ currentPage' = page
              /\ StartFetch(page)
              /\ latest' = Initiated("page", page)
              /\ triggers' = Inc(triggers)
  /\ UNCHANGED <<buses, pagination, mounted, total, lastGood, pgVars, reqVars>>

\* The response head of fetch i arrives.
NetResponse ==
  \E i \in DOMAIN fetches :
    /\ fetches[i].req.pc = "fetch"
    /\ \E res \in AppResponses(fetches[i].page, fetches[i].size, total) :
         \E r \in {OnResponse(fetches[i].req, res)} : Advance(i, r)

NetError ==
  \E i \in DOMAIN fetches :
    /\ fetches[i].req.pc = "fetch"
    /\ \E r \in {OnNetworkError(fetches[i].req)} : Advance(i, r)

NetBody ==
  \E i \in DOMAIN fetches :
    /\ fetches[i].req.pc \in {"errText", "okJson", "okText"}
    /\ \E r \in {OnBody(fetches[i].req)} : Advance(i, r)

NetBodyError ==
  \E i \in DOMAIN fetches :
    /\ fetches[i].req.pc \in {"errText", "okJson", "okText"}
    /\ \E r \in {OnBodyError(fetches[i].req)} : Advance(i, r)

TimerFires ==
  \E i \in DOMAIN fetches :
    /\ fetches[i].req.timer = "armed"
    /\ \E r \in {OnTimer(fetches[i].req)} : Advance(i, r)

DeadlinePasses ==
  \E i \in DOMAIN fetches :
    /\ fetches[i].req.timer = "cleared"
    /\ ~fetches[i].req.elapsed
    /\ \E r \in {OnDeadline(fetches[i].req)} : Advance(i, r)

\* Buses are added to or removed from the fleet by others.
BackendChanges ==
  /\ \E n \in TotalChoices \ {total} : total' = n
  /\ UNCHANGED <<currentPage, buses, loading, error, pagination, mounted, fetches,
                 obsVars, pgVars, reqVars>>

----------------------------------------------------------------------------
(* The specifications.                                                     *)

PgIdle  == pgProps = NoProps /\ pgOut = NotRendered
ObsIdle == latest = NoFetch /\ lastGood = Null /\ triggers = 0 /\ calls = 0
AppIdle ==
  /\ currentPage = 0
  /\ buses = <<>>
  /\ loading = TRUE
  /\ error = Null
  /\ pagination = Null
  /\ mounted = FALSE
  /\ fetches = <<>>
  /\ total = 0
  /\ ObsIdle

InitPagination ==
  /\ pgProps \in PropsSet
  /\ pgOut = NotRendered
  /\ req = ReqIdle
  /\ listCall = NoListCall
  /\ AppIdle
NextPagination == PgRender \/ PgClick
SpecPagination == InitPagination /\ [][NextPagination]_vars

InitRequest ==
  /\ PgIdle
  /\ req = ReqIdle
  /\ listCall = NoListCall
  /\ AppIdle
NextRequest ==
  \/ ReqCall
  \/ ReqResponse
  \/ ReqNetworkError
  \/ ReqBody
  \/ ReqBodyError
  \/ ReqTimer
  \/ ReqDeadline
SpecRequest == InitRequest /\ [][NextRequest]_vars

InitGetAll ==
  /\ PgIdle
  /\ req = ReqIdle
  /\ \E k \in DOMAIN GetAllOutcomes :
       \E o \in GetAllOutcomes[k] :
         listCall = [NoListCall EXCEPT !.phase = "request", !.outcome = o]
  /\ AppIdle
NextGetAll == ListApi \/ ListService
SpecGetAll == InitGetAll /\ [][NextGetAll]_vars

\* The first render of BusPage, before its effect has run.
Init ==
  /\ PgIdle
  /\ req = ReqIdle
  /\ listCall = NoListCall
  /\ currentPage = 0
  /\ buses = <<>>
  /\ loading = TRUE
  /\ error = Null
  /\ pagination = Null
  /\ mounted = FALSE
  /\ fetches = <<>>
  /\ total \in TotalChoices
  /\ ObsIdle
Next ==
  \/ Mount
  \/ ClickRefresh
  \/ ClickRetry
  \/ ClickPage
  \/ NetResponse
  \/ NetError
  \/ NetBody
  \/ NetBodyError
  \/ TimerFires
  \/ DeadlinePasses
  \/ BackendChanges
Spec == Init /\ [][Next]_vars

----------------------------------------------------------------------------
(* SpecHook: useBuses(page) called by any component. BusPage disables its  *)
(* controls while loading; the hook itself takes a new page argument or a  *)
(* call of refetch at any time, also while a fetch is in flight.           *)

\* The caller renders with another page: the effect on [page] runs fetchBuses(page).
HookPageChange ==
  /\ mounted
  /\ \E page \in (0..MaxHookPage) \ {currentPage} :
       /\ currentPage' = page
       /\ StartFetch(page)
       /\ latest' = Initiated("page", page)
  /\ triggers' = Inc(triggers)
  /\ UNCHANGED <<buses, pagination, mounted, total, lastGood, pgVars, reqVars>>

\* The caller calls refetch(): fetchBuses(page) with the page of this render.
HookRefetch ==
  /\ mounted
  /\ StartFetch(currentPage)
  /\ latest' = Initiated("refresh", currentPage)
  /\ triggers' = Inc(triggers)
  /\ UNCHANGED <<currentPage, buses, pagination, mounted, total, lastGood,
                 pgVars, reqVars>>

InitHook ==
  /\ PgIdle
  /\ req = ReqIdle
  /\ listCall = NoListCall
  /\ currentPage = 0
  /\ buses = <<>>
  /\ loading = TRUE
  /\ error = Null
  /\ pagination = Null
  /\ mounted = FALSE
  /\ fetches = <<>>
  /\ total = 12
  /\ ObsIdle
NextHook ==
  \/ Mount
  \/ HookPageChange
  \/ HookRefetch
  \/ NetResponse
  \/ NetError
  \/ NetBody
  \/ NetBodyError
  \/ TimerFires
  \/ DeadlinePasses
SpecHook == InitHook /\ [][NextHook]_vars

----------------------------------------------------------------------------
(* SpecFair: BusPage as in Spec, against a fleet of any size that holds    *)
(* still, with                                                             *)
(* the scheduling the browser and a live network give: the mount effect    *)
(* runs, an armed timer fires, and a response head or body that is awaited *)
(* arrives unless the call ends another way first.                         *)

InitFair ==
  /\ PgIdle
  /\ req = ReqIdle
  /\ listCall = NoListCall
  /\ currentPage = 0
  /\ buses = <<>>
  /\ loading = TRUE
  /\ error = Null
  /\ pagination = Null
  /\ mounted = FALSE
  /\ fetches = <<>>
  /\ total \in TotalChoices
  /\ ObsIdle
NextFair ==
  \/ Mount
  \/ ClickRefresh
  \/ ClickRetry
  \/ ClickPage
  \/ NetResponse
  \/ NetError
  \/ NetBody
  \/ NetBodyError
  \/ TimerFires
  \/ DeadlinePasses
Fairness ==
  /\ WF_vars(Mount)
  /\ WF_vars(TimerFires)
  /\ WF_vars(NetResponse)
  /\ WF_vars(NetBody)
SpecFair == InitFair /\ [][NextFair]_vars /\ Fairness

----------------------------------------------------------------------------
(* Properties of the page window and the range text (SpecPagination).      *)

Rendered == pgOut.phase = "rendered"

\* A window as text: "..." for an ellipsis marker, the decimal page index otherwise.
Shape(w) == [i \in DOMAIN w |-> IF IsEllipsis(w[i]) THEN "..." ELSE ToString(w[i])]

\* C1: for every totalPages in 0..7 and every currentPage, getVisiblePages
\* returns exactly 0, 1, ..., totalPages-1: totalPages entries, ascending,
\* none of them an ellipsis marker.
C1_SmallWindowIsAllPages ==
  (Rendered /\ pgProps.totalPages \in 0..7) =>
    LET w == pgOut.visiblePages
    IN /\ Len(w) = pgProps.totalPages
       /\ \A i \in DOMAIN w : w[i] = i - 1
       /\ \A i \in DOMAIN w : w[i] # -1 /\ w[i] # -2

C1_Witness ==
  /\ Rendered
  /\ pgProps.totalPages = 7
  /\ pgProps.currentPage = 6
  /\ pgOut.visiblePages = <<0, 1, 2, 3, 4, 5, 6>>

\* C2: for totalPages > 7 and 3 <= currentPage <= totalPages-4 the window is
\* 0, ellipsis, currentPage-1, currentPage, currentPage+1, ellipsis,
\* totalPages-1; for totalPages = 10 and currentPage = 5 it is
\* 0, ellipsis, 4, 5, 6, ellipsis, 9.
C2_MiddleWindow ==
  LET cp == pgProps.currentPage
      tp == pgProps.totalPages
  IN /\ (Rendered /\ tp > 7 /\ 3 <= cp /\ cp <= tp - 4) =>
          Shape(pgOut.visiblePages) =
            <<"0", "...", ToString(cp - 1), ToString(cp), ToString(cp + 1), "...",
              ToString(tp - 1)>>
     /\ (Rendered /\ tp = 10 /\ cp = 5) =>
          Shape(pgOut.visiblePages) = <<"0", "...", "4", "5", "6", "...", "9">>

C2_Witness ==
  /\ Rendered
  /\ pgProps.totalPages = 10
  /\ pgProps.currentPage = 5
  /\ Len(pgOut.visiblePages) = 7
  /\ pgOut.visiblePages[4] = 5

\* C3: for totalPages > 7 and currentPage <= 2 the window is 0, 1, 2, 3, 4,
\* one ellipsis, totalPages-1; for totalPages = 10 and currentPage = 0 it is
\* 0, 1, 2, 3, 4, ellipsis, 9.
C3_StartWindow ==
  LET cp == pgProps.currentPage
      tp == pgProps.totalPages
  IN /\ (Rendered /\ tp > 7 /\ cp <= 2) =>
          Shape(pgOut.visiblePages) =
            <<"0", "1", "2", "3", "4", "...", ToString(tp - 1)>>
     /\ (Rendered /\ tp = 10 /\ cp = 0) =>
          Shape(pgOut.visiblePages) = <<"0", "1", "2", "3", "4", "...", "9">>

C3_Witness ==
  /\ Rendered
  /\ pgProps.totalPages = 10
  /\ pgProps.currentPage = 0
  /\ Len(pgOut.visiblePages) = 7
  /\ pgOut.visiblePages[7] = 9

\* C4: for totalPages > 7 and currentPage > 2 with currentPage >= totalPages-3
\* the window is 0, one ellipsis, totalPages-5, ..., totalPages-1; for
\* totalPages = 10 and currentPage = 9 it is 0, ellipsis, 5, 6, 7, 8, 9.
C4_EndWindow ==
  LET cp == pgProps.currentPage
      tp == pgProps.totalPages
  IN /\ (Rendered /\ tp > 7 /\ cp > 2 /\ cp >= tp - 3) =>
          Shape(pgOut.visiblePages) =
            <<"0", "...", ToString(tp - 5), ToString(tp - 4), ToString(tp - 3),
              ToString(tp - 2), ToString(tp - 1)>>
     /\ (Rendered /\ tp = 10 /\ cp = 9) =>
          Shape(pgOut.visiblePages) = <<"0", "...", "5", "6", "7", "8", "9">>

C4_Witness ==
  /\ Rendered
  /\ pgProps.totalPages = 10
  /\ pgProps.currentPage = 9
  /\ Len(pgOut.visiblePages) = 7
  /\ pgOut.visiblePages[3] = 5

\* C5: in every window the ellipsis markers are pairwise different (two of
\* them are -1 and -2), no two rendered entries share a list key, and an
\* ellipsis is rendered as a static span with no click handler.
C5_EllipsesDistinctAndStatic ==
  Rendered =>
    LET w    == pgOut.visiblePages
        view == pgOut.view
    IN /\ \A i, j \in DOMAIN w :
            (i < j /\ (w[i] = -1 \/ w[i] = -2) /\ (w[j] = -1 \/ w[j] = -2)) =>
              (w[i] # w[j] /\ {w[i], w[j]} = {-1, -2})
       /\ view.rendered =>
            /\ Len(view.items) = Len(w)
            /\ \A i, j \in DOMAIN view.items :
                 i # j => view.items[i].key # view.items[j].key
            /\ \A i \in DOMAIN view.items :
                 (w[i] = -1 \/ w[i] = -2) =>
                   /\ view.items[i].tag = "span"
                   /\ view.items[i].onClick = Undefined
            /\ \A page \in EnabledClicks([view EXCEPT !.prev.disabled = TRUE,
                                                      !.next.disabled = TRUE]) :
                 page >= 0

C5_Witness ==
  /\ Rendered
  /\ pgProps.totalPages = 10
  /\ pgProps.currentPage = 5
  /\ pgOut.view.rendered
  /\ pgOut.view.items[2].key = "ellipsis-1"
  /\ pgOut.view.items[6].key = "ellipsis-5"
  /\ pgOut.view.items[2].tag = "span"

\* C6: the range text shows start = currentPage * pageSize + 1 and
\* end = min((currentPage + 1) * pageSize, totalElements); for currentPage = 1,
\* pageSize = 5 and totalElements = 23 that is 6 and 10.
C6_RangeText ==
  LET cp == pgProps.currentPage
      ps == IF pgProps.pageSize = <<>> THEN 5 ELSE pgProps.pageSize[1]
      te == pgProps.totalElements
  IN (Rendered /\ pgOut.view.rendered) =>
       /\ pgOut.view.start = cp * ps + 1
       /\ pgOut.view.end = (IF (cp + 1) * ps <= te THEN (cp + 1) * ps ELSE te)
       /\ (cp = 1 /\ ps = 5 /\ te = 23) =>
            (pgOut.view.start = 6 /\ pgOut.view.end = 10)

C6_Witness ==
  /\ Rendered
  /\ pgOut.view.rendered
  /\ pgProps.currentPage = 1
  /\ pgProps.pageSize = <<5>>
  /\ pgProps.totalElements = 23
  /\ pgOut.view.start = 6
  /\ pgOut.view.end = 10

----------------------------------------------------------------------------
(* Properties of what BusPage shows (Spec).                                *)

\* C7: whenever the pagination data in effect (the hook's metadata, or the
\* fallback derived from the list before any fetch has succeeded) has no
\* elements or at most one page, BusPage does not mount Pagination, and
\* Pagination itself renders nothing for it: no controls and no range text.
C7_NoPaginationForZeroOrOnePage ==
  (paginationData.totalElements = 0 \/ paginationData.totalPages <= 1) =>
    /\ Pagination(PaginationProps(paginationData)) = [rendered |-> FALSE]
    /\ BusPageView.panel = "page" =>
         /\ ~BusPageView.mountsPagination
         /\ ~BusPageView.pagination.rendered

C7_Witness ==
  /\ pagination # Null
  /\ pagination[1].totalElements = 0
  /\ pagination[1].totalPages = 0
  /\ ~loading
  /\ BusPageView.panel = "page"
  /\ BusPageView.table = "empty"

----------------------------------------------------------------------------
(* Properties of request() (SpecRequest).                                  *)

Settled   == req.pc = "done"
NonOk     == req.res # Null /\ ~(200 <= req.res[1].status /\ req.res[1].status <= 299)

\* C8: after a response with a non-success status request never returns a
\* value; once the body has been read it fails with an error whose message is
\* the raw text (the status text when the text is empty), whose status is the
\* HTTP status and whose data is the parsed body when the text parses as
\* JSON. A 404 with body {"error":"not found"} fails with status 404 and
\* data equal to that object.
C8_NonSuccessFails ==
  (Settled /\ NonOk) =>
    LET res == req.res[1]
        err == req.outcome
    IN /\ err.kind = "error"
       /\ req.read =>
            /\ err.message = (IF res.text # "" THEN res.text ELSE res.statusText)
            /\ err.status = <<res.status>>
            /\ (res.text # "" /\ JSONParse(res.text).ok) =>
                 err.data = <<JSONParse(res.text).value>>
            /\ (res.status = 404 /\ res.text = "{\"error\":\"not found\"}") =>
                 /\ err.status = <<404>>
                 /\ err.data = <<[t |-> "object",
                                  v |-> [error |-> [t |-> "string", v |-> "not found"]]]>>

C8_Witness ==
  /\ Settled
  /\ req.read
  /\ req.res # Null
  /\ req.res[1].status = 404
  /\ req.res[1].text = "{\"error\":\"not found\"}"
  /\ req.outcome.kind = "error"
  /\ req.outcome.status = <<404>>

\* C9: when a non-success response carries a non-empty body that is not valid
\* JSON, request fails with the status code and with data equal to the raw
\* body text, not null.
C9_RawTextKeptAsData ==
  (Settled /\ NonOk /\ req.read /\ req.res[1].text # "" /\ ~JSONParse(req.res[1].text).ok) =>
    /\ req.outcome.kind = "error"
    /\ req.outcome.status = <<req.res[1].status>>
    /\ req.outcome.data = <<[t |-> "string", v |-> req.res[1].text]>>
    /\ req.outcome.data # <<[t |-> "null"]>>

C9_Witness ==
  /\ Settled
  /\ req.read
  /\ req.res # Null
  /\ req.res[1].status = 500
  /\ req.res[1].text = "Service Unavailable"
  /\ req.outcome.kind = "error"
  /\ req.outcome.data = <<[t |-> "string", v |-> "Service Unavailable"]>>

\* C10: a request whose timeout elapses before it has produced its result,
\* whether it is waiting for the response or reading the response body, is
\* aborted by the signal and fails with a transport-level error; and the
\* timer never fires once the request has completed. As a state predicate:
\* when the timeout has elapsed the request has its result (produced before,
\* or by the abort); an abort always ends in the AbortError; and the timer has
\* fired only by aborting.
C10_TimeoutAbortsAtEveryStage ==
  /\ req.elapsed => req.pc = "done"
  /\ req.aborted => (req.pc = "done" /\ req.outcome.kind = "error"
                       /\ req.outcome.name = "AbortError")
  /\ req.timer = "fired" => req.aborted

\* C11: on every completion path of request() (a returned value, the
\* application error of a non-success status, a network failure, the abort of
\* the timeout) the timer created by the call is no longer armed: it has been
\* cleared, or it has fired and that is the abort the call ended with.
C11_TimerClearedOnCompletion ==
  Settled =>
    /\ req.timer \in {"cleared", "fired"}
    /\ req.timer = "fired" =>
         (req.outcome.kind = "error" /\ req.outcome.name = "AbortError")

C11_Witness ==
  /\ Settled
  /\ NonOk
  /\ req.read
  /\ req.outcome.kind = "error"
  /\ req.outcome.name = "Error"
  /\ req.timer = "cleared"

Ok2xx == req.res # Null /\ ResOk(req.res[1].status)

\* C12: a successful response with status 204 makes request() resolve to
\* undefined at once, and its body is never read nor parsed, whatever its
\* content-type header is.
C12_NoContentIsUndefined ==
  (req.res # Null /\ req.res[1].status = 204) =>
    /\ req.pc = "done"
    /\ req.outcome = [kind |-> "value", value |-> [t |-> "undefined"]]
    /\ ~req.read

C12_Witness ==
  /\ Settled
  /\ req.res # Null
  /\ req.res[1].status = 204
  /\ req.res[1].contentType = <<"application/json">>
  /\ req.res[1].text # ""
  /\ req.outcome = [kind |-> "value", value |-> [t |-> "undefined"]]
  /\ ~req.read

\* C13 as stated: for a successful response other than 204 whose body has been
\* read, request() returns a value: the parsed JSON body under a JSON content
\* type, the raw text otherwise.
C13_SuccessAlwaysYieldsBody ==
  (Settled /\ Ok2xx /\ req.res[1].status # 204 /\ req.read) =>
    /\ req.outcome.kind = "value"
    /\ IF IncludesJson(req.res[1].contentType)
         THEN JSONParse(req.res[1].text).ok
              /\ req.outcome.value = JSONParse(req.res[1].text).value
         ELSE req.outcome.value = [t |-> "string", v |-> req.res[1].text]

\* C13, amended: for a successful response other than 204 whose body has been
\* read, under a JSON content type request() returns the parsed body when the
\* text is JSON and fails with the parse error when it is not (an empty body
\* included); under any other content type, or none, it returns the raw text.
\* A returned value is exactly one of: undefined (204), the parsed JSON, the
\* raw text.
C13_SuccessOutcomeByContentType ==
  /\ (Settled /\ Ok2xx /\ req.res[1].status # 204 /\ req.read) =>
       IF IncludesJson(req.res[1].contentType)
         THEN IF JSONParse(req.res[1].text).ok
                THEN req.outcome = [kind |-> "value",
                                    value |-> JSONParse(req.res[1].text).value]
                ELSE req.outcome.kind = "error" /\ req.outcome.name = "SyntaxError"
         ELSE req.outcome = [kind |-> "value",
                             value |-> [t |-> "string", v |-> req.res[1].text]]
  /\ (Settled /\ Ok2xx /\ req.outcome.kind = "value") =>
       LET res    == req.res[1]
           empty  == res.status = 204 /\ req.outcome.value = [t |-> "undefined"]
           parsed == /\ res.status # 204
                     /\ IncludesJson(res.contentType)
                     /\ JSONParse(res.text).ok
                     /\ req.outcome.value = JSONParse(res.text).value
           raw    == /\ res.status # 204
                     /\ ~IncludesJson(res.contentType)
                     /\ req.outcome.value = [t |-> "string", v |-> res.text]
       IN /\ empty \/ parsed \/ raw
          /\ ~(empty /\ parsed) /\ ~(empty /\ raw) /\ ~(parsed /\ raw)

C13_Witness ==
  /\ Settled
  /\ req.read
  /\ req.res # Null
  /\ req.res[1].status = 200
  /\ req.res[1].contentType = <<"application/json;charset=UTF-8">>
  /\ req.res[1].text = ""
  /\ req.outcome.kind = "error"
  /\ req.outcome.name = "SyntaxError"

C15_LatestRequestWins ==
  (fetches = <<>> /\ latest.state \in {"ok", "failed"}) =>
    IF latest.state = "ok"
      THEN /\ buses = latest.got[1].value.buses
           /\ pagination = <<PaginationOf(latest.got[1].value)>>
           /\ error = <<>>
      ELSE error = <<ErrorMessage(latest.got[1])>>

\* C16: the list and the pagination metadata of useBuses always equal what the
\* last successful fetch returned, both taken from that one response, or the
\* initial empty list and null metadata when none has succeeded: starting a
\* fetch and a failed fetch change neither.
C16_ListIsLastSuccess ==
  IF lastGood = <<>>
    THEN buses = <<>> /\ pagination = <<>>
    ELSE /\ buses = lastGood[1].buses
         /\ pagination = <<PaginationOf(lastGood[1])>>

C16_Witness ==
  /\ lastGood # <<>>
  /\ Len(buses) > 0
  /\ pagination # <<>>
  /\ pagination[1].currentPage = 1
  /\ currentPage = 2
  /\ latest.state = "failed"
  /\ fetches = <<>>
  /\ error # <<>>

\* C17: the retry of the error panel follows a failed fetch and asks for the
\* page that fetch asked for, with size 5; while the retry is in flight the
\* error is cleared; when it has succeeded the error is still cleared and the
\* page it fetched is what BusPage shows.
C17_RetryRepeatsFailedFetch ==
  latest.trigger = "retry" =>
    /\ latest.after.state = "failed"
    /\ latest.page = latest.after.page
    /\ latest.state = "inflight" =>
         /\ error = <<>>
         /\ Len(fetches) = 1
         /\ fetches[1].page = latest.page
         /\ fetches[1].size = 5
    /\ latest.state = "ok" =>
         /\ error = <<>>
         /\ BusPageView.panel = "page"
         /\ buses = latest.got[1].value.buses
         /\ pagination # <<>>
         /\ pagination[1].currentPage = latest.page

C17_Witness ==
  /\ latest.trigger = "retry"
  /\ latest.state = "ok"
  /\ latest.page = 2
  /\ error = <<>>
  /\ pagination # <<>>
  /\ pagination[1].currentPage = 2

\* C18: nothing retries by itself. As many network calls have been started as
\* the user has triggered fetches; once the fetch initiated last has failed no
\* call is in flight until the next trigger; and every failure, of the
\* transport or of the application, shows as a non-null error with loading false.
C18_NoAutomaticRetry ==
  /\ calls = triggers
  /\ latest.state = "failed" =>
       /\ fetches = <<>>
       /\ error # <<>>
       /\ ~loading

C18_Witness ==
  /\ triggers = 2
  /\ calls = 2
  /\ latest.trigger = "refresh"
  /\ latest.state = "failed"
  /\ latest.got[1].name = "Error"
  /\ latest.after.state = "ok"
  /\ fetches = <<>>
  /\ error = <<"Service Unavailable">>

PrevNextFollowFlags ==
  (BusPageView.panel = "page" /\ BusPageView.mountsPagination) =>
    /\ BusPageView.pagination.prev.disabled = (pagination[1].isFirst \/ loading)
    /\ BusPageView.pagination.next.disabled = (pagination[1].isLast \/ loading)

\* C20 as stated: whenever pagination metadata is present, isFirst is
\* (currentPage = 0), isLast is (currentPage = totalPages - 1),
\* 0 <= currentPage < totalPages when totalElements > 0, and the previous and
\* next controls of Pagination are disabled as the flags say.
C20_MetadataInvariants ==
  pagination # <<>> =>
    /\ pagination[1].isFirst = (pagination[1].currentPage = 0)
    /\ pagination[1].isLast = (pagination[1].currentPage = pagination[1].totalPages - 1)
    /\ pagination[1].totalElements > 0 =>
         (0 <= pagination[1].currentPage
            /\ pagination[1].currentPage < pagination[1].totalPages)
    /\ PrevNextFollowFlags

\* C20, amended: whenever pagination metadata is present, isFirst is
\* (currentPage = 0); isLast is (currentPage = totalPages - 1) when
\* currentPage < totalPages, and true otherwise; 0 <= currentPage < totalPages
\* when the fetched page holds a record; and when currentPage < totalPages the
\* previous and next controls of Pagination are disabled as the flags say.
C20_MetadataWithinRange ==
  pagination # <<>> =>
    /\ pagination[1].isFirst = (pagination[1].currentPage = 0)
    /\ IF pagination[1].currentPage < pagination[1].totalPages
         THEN /\ pagination[1].isLast =
                   (pagination[1].currentPage = pagination[1].totalPages - 1)
              /\ PrevNextFollowFlags
         ELSE pagination[1].isLast
    /\ Len(buses) > 0 =>
         (0 <= pagination[1].currentPage
            /\ pagination[1].currentPage < pagination[1].totalPages)

C20_Witness ==
  /\ pagination # <<>>
  /\ pagination[1].totalPages > 1
  /\ pagination[1].totalElements > 0
  /\ pagination[1].currentPage >= pagination[1].totalPages
  /\ pagination[1].isLast
  /\ BusPageView.panel = "page"
  /\ BusPageView.mountsPagination
  /\ ~BusPageView.pagination.next.disabled

\* C21: getAllBuses returns a raw array response as it is and the list of the
\* buses field of an object response; null, undefined, an object without a
\* buses list and a text yield the empty list, never an error; a failure of
\* the request is thrown on unchanged. getAll gives a list or that failure.
C21_GetAllBusesShapes ==
  listCall.phase \in {"api", "done"} =>
    /\ listCall.outcome.kind = "error" => listCall.api = listCall.outcome
    /\ listCall.outcome.kind = "value" =>
         LET response == listCall.outcome.value
         IN /\ listCall.api.kind = "value"
            /\ response.t = "array" => listCall.api.value = response
            /\ (response.t = "object" /\ "buses" \in DOMAIN response.v
                  /\ response.v.buses.t = "array") =>
                 listCall.api.value = response.v.buses
            /\ (\/ response.t \in {"null", "undefined", "string"}
                \/ response.t = "object" /\ "buses" \notin DOMAIN response.v
                \/ response.t = "object" /\ "buses" \in DOMAIN response.v
                     /\ response.v.buses.t = "null") =>
                 listCall.api.value = [t |-> "array", v |-> <<>>]
    /\ listCall.phase = "done" =>
         IF listCall.outcome.kind = "error"
           THEN listCall.result = listCall.outcome
           ELSE listCall.result.kind = "value" /\ listCall.result.value.t = "array"

C21_Witness ==
  /\ listCall.phase = "done"
  /\ listCall.outcome.kind = "value"
  /\ listCall.outcome.value.t = "object"
  /\ "buses" \in DOMAIN listCall.outcome.value.v
  /\ listCall.outcome.value.v.buses.t = "array"
  /\ Len(listCall.outcome.value.v.buses.v) = 2
  /\ listCall.api.value = listCall.outcome.value.v.buses
  /\ Len(listCall.result.value.v) = 2

InRange == 0 <= pgProps.currentPage /\ pgProps.currentPage < pgProps.totalPages

\* C22: for totalPages > 7 and currentPage in 0..totalPages-1, an ellipsis
\* marker stands only where page indices are skipped: it has a page entry on
\* each side and these differ by at least 2; and two page entries next to each
\* other are consecutive indices.
C22_EllipsisOnlyOverGaps ==
  (Rendered /\ pgProps.totalPages > 7 /\ InRange) =>
    LET w == pgOut.visiblePages
    IN /\ \A i \in DOMAIN w :
            w[i] \in {-1, -2} =>
              /\ 1 < i /\ i < Len(w)
              /\ w[i - 1] >= 0 /\ w[i + 1] >= 0
              /\ w[i + 1] - w[i - 1] >= 2
       /\ \A i \in 1..(Len(w) - 1) :
            (w[i] >= 0 /\ w[i + 1] >= 0) => w[i + 1] = w[i] + 1

C22_Witness ==
  /\ Rendered
  /\ pgProps.totalPages = 8
  /\ pgProps.currentPage = 3
  /\ pgOut.visiblePages = <<0, -1, 2, 3, 4, -2, 7>>

\* C23: for totalPages > 7 and currentPage in 0..totalPages-1, the window has
\* exactly 7 entries; its page entries are strictly ascending, lie in
\* 0..totalPages-1 and include 0, totalPages-1 and currentPage.
C23_WindowOfSeven ==
  (Rendered /\ pgProps.totalPages > 7 /\ InRange) =>
    LET w     == pgOut.visiblePages
        pages == {i \in DOMAIN w : w[i] >= 0}
    IN /\ Len(w) = 7
       /\ \A i \in DOMAIN w : w[i] >= 0 \/ w[i] \in {-1, -2}
       /\ \A i \in pages : \A j \in pages : i < j => w[i] < w[j]
       /\ \A i \in pages : w[i] <= pgProps.totalPages - 1
       /\ \E i \in pages : w[i] = 0
       /\ \E i \in pages : w[i] = pgProps.totalPages - 1
       /\ \E i \in pages : w[i] = pgProps.currentPage

C23_Witness ==
  /\ Rendered
  /\ pgProps.totalPages = 11
  /\ pgProps.currentPage = 8
  /\ pgOut.visiblePages = <<0, -1, 6, 7, 8, 9, 10>>

\* C24: when 0 <= currentPage < totalPages, every page an enabled control of
\* Pagination passes to onPageChange lies in 0..totalPages-1; previous is
\* disabled on page 0 and next on the last page; and while loading is true
\* no control is enabled.
C24_ControlsStayInRange ==
  (Rendered /\ pgOut.view.rendered /\ InRange) =>
    /\ EnabledClicks(pgOut.view) \subseteq 0..(pgProps.totalPages - 1)
    /\ pgProps.currentPage = 0 => pgOut.view.prev.disabled
    /\ pgProps.currentPage = pgProps.totalPages - 1 => pgOut.view.next.disabled
    /\ pgProps.loading = <<TRUE>> =>
         /\ pgOut.view.prev.disabled
         /\ pgOut.view.next.disabled
         /\ \A i \in DOMAIN pgOut.view.items :
              pgOut.view.items[i].tag = "button" => pgOut.view.items[i].disabled
         /\ EnabledClicks(pgOut.view) = {}

C24_Witness ==
  /\ Rendered
  /\ pgOut.view.rendered
  /\ pgProps.totalPages = 9
  /\ pgProps.currentPage = 8
  /\ pgProps.loading = <<FALSE>>
  /\ pgOut.view.next.disabled
  /\ ~pgOut.view.prev.disabled
  /\ EnabledClicks(pgOut.view) = {0, 4, 5, 6, 7, 8}

\* C28: when Pagination is rendered with pageSize >= 1,
\* 0 <= currentPage < totalPages and totalPages = ceil(totalElements / pageSize),
\* the range it displays satisfies 1 <= start <= end <= totalElements and
\* end - start + 1 <= pageSize, and end = totalElements exactly on the last page.
C28_RangeWithinBounds ==
  LET size == IF pgProps.pageSize = <<>> THEN 5 ELSE pgProps.pageSize[1]
  IN (Rendered /\ pgOut.view.rendered /\ InRange /\ size >= 1
        /\ pgProps.totalPages = (pgProps.totalElements + size - 1) \div size) =>
       /\ 1 <= pgOut.view.start
       /\ pgOut.view.start <= pgOut.view.end
       /\ pgOut.view.end <= pgProps.totalElements
       /\ pgOut.view.end - pgOut.view.start + 1 <= size
       /\ (pgOut.view.end = pgProps.totalElements)
            <=> (pgProps.currentPage = pgProps.totalPages - 1)

C28_Witness ==
  /\ Rendered
  /\ pgOut.view.rendered
  /\ pgProps.pageSize = <<5>>
  /\ pgProps.totalElements = 23
  /\ pgProps.totalPages = 5
  /\ pgProps.currentPage = 4
  /\ pgOut.view.start = 21
  /\ pgOut.view.end = 23

\* C25: through BusPage at most one fetch is in flight at any time: while a
\* fetch is in flight loading is true, and while loading is true the refresh
\* button is disabled, no control of the pagination is enabled and the error
\* panel with its retry button is not shown.
C25_OneFetchAtATime ==
  /\ Len(fetches) <= 1
  /\ fetches # <<>> => loading
  /\ loading =>
       /\ BusPageView.panel = "page"
       /\ BusPageView.refreshDisabled
       /\ EnabledClicks(BusPageView.pagination) = {}

C25_Witness ==
  /\ Len(fetches) = 1
  /\ loading
  /\ latest.trigger = "page"
  /\ BusPageView.panel = "page"
  /\ BusPageView.mountsPagination
  /\ BusPageView.pagination.rendered
  /\ BusPageView.refreshDisabled
  /\ EnabledClicks(BusPageView.pagination) = {}

\* C26: when no fetch is in flight, error is non-null exactly when the fetch
\* initiated last failed; error and loading are never both set; and whenever
\* error is non-null BusPage shows the error panel only.
C26_ErrorMeansErrorPanel ==
  /\ (mounted /\ fetches = <<>>) => ((error # Null) <=> (latest.state = "failed"))
  /\ ~(loading /\ error # Null)
  /\ error # Null => BusPageView.panel = "error"

\* C27: a page change to another page starts exactly one fetch, of the page
\* selected and of size 5; a step that keeps the page starts a fetch only by
\* mount, refresh or retry, and then exactly one, of the current page.
C27_PageChangeFetchesOnce ==
  [][ /\ currentPage' # currentPage =>
           /\ fetches' = Append(fetches, [page |-> currentPage', size |-> 5,
                                          req |-> ReqStart])
           /\ latest'.trigger = "page"
           /\ latest'.page = currentPage'
      /\ (currentPage' = currentPage /\ Len(fetches') > Len(fetches)) =>
           /\ fetches' = Append(fetches, [page |-> currentPage, size |-> 5,
                                          req |-> ReqStart])
           /\ latest'.trigger \in {"mount", "refresh", "retry"}
           /\ latest'.page = currentPage
      /\ (latest'.trigger = "refresh" /\ latest'.state = "inflight"
            /\ latest # latest') =>
           /\ currentPage' = currentPage
           /\ fetches' = Append(fetches, [page |-> currentPage, size |-> 5,
                                          req |-> ReqStart])
    ]_vars

C27_Witness ==
  /\ currentPage = 2
  /\ latest.trigger = "page"
  /\ latest.state = "inflight"
  /\ latest.after.page = 1
  /\ fetches = <<[page |-> 2, size |-> 5, req |-> ReqStart]>>

C30_FailureMessage ==
  /\ (fetches = <<>> /\ latest.state = "failed") =>
       /\ error # Null
       /\ error = <<latest.got[1].message>>
       /\ latest.got[1].status # <<>> =>
            \E res \in AppResponses(latest.page, 5, total) :
              /\ res.status = latest.got[1].status[1]
              /\ error[1] = IF res.text # "" THEN res.text ELSE res.statusText
  /\ ErrorMessage([name |-> "string", message |-> "boom"]) = "Error loading buses"

C30_Witness ==
  /\ fetches = <<>>
  /\ latest.state = "failed"
  /\ latest.got[1].status = <<503>>
  /\ error = <<"Service Unavailable">>

====
